---- MODULE Spec2Model ----
(***************************************************************************)
(* Model of src/worker.py: generate_puzzles and the helpers it calls.      *)
(*                                                                         *)
(* Numbers.  The engine returns an integer number of centipawns, which     *)
(* line 50 divides by 100.0.  The model writes a score in thousandths of a *)
(* pawn: a score is a multiple of Centipawn, and the rounding error of a   *)
(* binary floating point difference is one thousandth in either direction. *)
(* round(x, 2) removes that error again (Round2).                          *)
(***************************************************************************)
EXTENDS Integers, Sequences, FiniteSets, TLC

\* ---------------------------------------------------------------- bounds
MaxGames == 3
MaxMoves == 3
MaxTotalMoves == 5
MaxTarget == 2
MaxBatch == 2

\* The scores the engine may answer, in thousandths of a pawn.
Scores == {0, 600, 2100}

\* One game of up to SwingMoves moves, and an engine that answers with the scores
\* of the scenario 0.2, 0.3, 2.1, 2.0, -1.0, or with 0.5 (exactly 1.5 from -1.0)
\* or 0.6 (1.5 from 2.1, but not exactly so in floating point).
SwingMoves == 5
SwingScores == {-1000, 200, 300, 500, 600, 2000, 2100}

\* ------------------------------------------------------------- constants
MIN_EVAL_SWING == 1500
Centipawn == 10
\* cp / 100.0 is exact in binary floating point when cp is a multiple of 25
QuarterPawn == 250

\* --------------------------------------------------------------- helpers
None == <<>>
Some(x) == <<x>>

Abs(x) == IF x < 0 THEN -x ELSE x
Min(a, b) == IF a < b THEN a ELSE b

\* A game is its mainline: the number of its moves, and the first move that
\* board.push rejects (0 when it accepts them all).
GameSet == {g \in [moves : 0..MaxMoves, illegal : 0..MaxMoves] : g.illegal <= g.moves}
RECURSIVE TotalMoves(_)
TotalMoves(gs) == IF gs = <<>> THEN 0 ELSE gs[1].moves + TotalMoves(Tail(gs))
GameLists ==
  {gs \in UNION {[1..n -> GameSet] : n \in 0..MaxGames} : TotalMoves(gs) <= MaxTotalMoves}

VARIABLES
  TARGET_PUZZLES, \* line 16
  BATCH_SIZE,     \* line 15
  cache,          \* /tmp/rooket_<username>.json: None or Some(list of games)
  remote,         \* the games the Lichess API holds for the user
  engineScores,   \* the scores Stockfish may answer with
  pc,             \* position of generate_puzzles
  error,          \* the exception that left generate_puzzles, "" if none
  games,          \* local of generate_puzzles
  engine,         \* the Stockfish process: "none", "alive" or "dead"
  quits,          \* number of engine.quit() calls
  puzzles,        \* local of generate_puzzles: the accumulator, then the ranked list
  i,              \* batch loop variable (0-based offset into games)
  j,              \* position of the inner loop in the batch (1-based, 0 before it)
  moveIdx,        \* analyze_game: moves of the mainline consumed so far
  prev_eval,      \* analyze_game: None or Some(score)
  found,          \* analyze_game: its local list of puzzles
  evalLog,        \* history: the engine.analyse calls issued, as <<game, move>>
  lastScore,      \* history: the score of the last engine.analyse call of this game
  accumulated,    \* history: the accumulator as it was when ranking started
  sink,           \* the payloads the Convex endpoint received
  posts,          \* number of requests.post calls
  outcome,        \* history: how the upload went
  returned,       \* the value generate_puzzles returned, None before
  lastWhite,      \* history: the last score of this game, from White's point of view
  starts          \* history: number of engine processes started

vars == <<TARGET_PUZZLES, BATCH_SIZE, cache, remote, engineScores, pc, error, games, engine,
          quits, puzzles, i, j, moveIdx, prev_eval, found, evalLog, lastScore,
          accumulated, sink, posts, outcome, returned, lastWhite, starts>>

config == <<TARGET_PUZZLES, BATCH_SIZE, remote, engineScores>>
analysis == <<moveIdx, prev_eval, found, lastScore, lastWhite>>
upload == <<sink, posts, outcome, returned>>

\* ------------------------------------------------------- pure functions

\* round(x, 2): to the nearest hundredth of a pawn, halves to even.
Round2(x) ==
  LET q == x \div Centipawn
      r == x % Centipawn
  IN  IF 2 * r < Centipawn THEN q * Centipawn
      ELSE IF 2 * r > Centipawn THEN (q + 1) * Centipawn
      ELSE IF q % 2 = 0 THEN q * Centipawn ELSE (q + 1) * Centipawn

\* The rounding error of score - prev_eval in floating point.
FloatError(a, b) ==
  IF a = b \/ (a % QuarterPawn = 0 /\ b % QuarterPawn = 0) THEN {0} ELSE {-1, 0, 1}

\* the sign is kept: the abs of line 53 is forgotten
SwingOfSigned(score, prev) == {(score - prev) + e : e \in FloatError(score, prev)}

\* abs(score - prev_eval), line 53: the values the float expression may take.
SwingOf(score, prev) == {Abs(score - prev) + e : e \in FloatError(score, prev)}

\* board.turn after m moves of a game that starts from the initial position
Turn(m) == IF m % 2 = 0 THEN "white" ELSE "black"

\* PovScore.pov(color) of a score that is relative to the side `turn`
PovOf(relative, turn, color) == IF color = turn THEN relative ELSE -relative

\* .white() where the code has .pov(board.turn): every score in White's frame
ScoreOfWhite(relative, turn) == PovOf(relative, turn, "white")

\* info["score"].pov(board.turn).score(mate_score=10000) / 100.0, line 50: the
\* engine's answer is relative to the side to move of the position analysed
ScoreOf(relative, turn) == PovOf(relative, turn, turn)

\* swing >= MIN_EVAL_SWING, line 54
IsSwing(swing) == swing >= MIN_EVAL_SWING

\* prev_eval starts at 0.0 instead of None
InitialPrevEvalZero == Some(0)

\* prev_eval = None, line 45
InitialPrevEval == None

\* the puzzle of lines 55-60
Puzzle(g, m, swing, score) ==
  [fen |-> <<g, m>>, swing |-> Round2(swing), last_move |-> m, eval |-> Round2(score)]

\* `if cached:` line 96: None and the empty list are both false
Truthy(c) == c # None /\ c[1] # <<>>

\* the slice stops one game early
BatchDropsLast == SubSeq(games, i + 1, Min(i + BATCH_SIZE - 1, Len(games)))

\* games[i:i + BATCH_SIZE], line 108
Batch == SubSeq(games, i + 1, Min(i + BATCH_SIZE, Len(games)))

\* > where the code has >=
BudgetExceeded(ps) == Len(ps) > TARGET_PUZZLES

\* len(puzzles) >= TARGET_PUZZLES, lines 113 and 115
BudgetReached(ps) == Len(ps) >= TARGET_PUZZLES

\* an unstable insertion: a later puzzle goes before the equal ones
InsertBeforeEqual(p, s) ==
  LET k == Cardinality({n \in 1..Len(s) : s[n].swing > p.swing})
  IN  SubSeq(s, 1, k) \o <<p>> \o SubSeq(s, k + 1, Len(s))

\* sorted(..., key=swing, reverse=True): a stable sort, equal keys keep their order
Insert(p, s) ==
  LET k == Cardinality({n \in 1..Len(s) : s[n].swing >= p.swing})
  IN  SubSeq(s, 1, k) \o <<p>> \o SubSeq(s, k + 1, Len(s))

\* the sort is left out
Unsorted(s) == s

RECURSIVE SortedBySwing(_)
SortedBySwing(s) ==
  IF s = <<>> THEN <<>>
  ELSE Insert(s[Len(s)], SortedBySwing(SubSeq(s, 1, Len(s) - 1)))

\* the slice is left out
Untruncated(s) == s

\* [:TARGET_PUZZLES], line 119
Truncate(s) == SubSeq(s, 1, Min(TARGET_PUZZLES, Len(s)))

\* ------------------------------------------------------------------ Init
Start ==
  /\ TARGET_PUZZLES \in 1..MaxTarget
  /\ BATCH_SIZE \in 1..MaxBatch
  /\ cache \in {None, Some(remote)}
  /\ pc = "load_cache"
  /\ error = ""
  /\ games = <<>>
  /\ engine = "none"
  /\ quits = 0
  /\ puzzles = <<>>
  /\ i = 0
  /\ j = 0
  /\ moveIdx = 0
  /\ prev_eval = None
  /\ found = <<>>
  /\ evalLog = <<>>
  /\ lastScore = None
  /\ accumulated = <<>>
  /\ sink = <<>>
  /\ posts = 0
  /\ outcome = "none"
  /\ returned = None
  /\ lastWhite = None
  /\ starts = 0

Init ==
  /\ remote \in GameLists
  /\ engineScores = Scores
  /\ Start

\* a single game, for the claims about analyze_game
InitSwing ==
  /\ remote \in {<<g>> : g \in {h \in [moves : 0..SwingMoves, illegal : 0..SwingMoves] :
                                   h.illegal <= h.moves}}
  /\ engineScores = SwingScores
  /\ Start

\* --------------------------------------------------------------- actions

\* lines 95-98: load_cache, and on a hit the cached games
LoadCache ==
  /\ pc = "load_cache"
  /\ IF Truthy(cache)
       THEN games' = cache[1] /\ pc' = "popen"
       ELSE games' = games /\ pc' = "fetch_games"
  /\ UNCHANGED <<config, starts, cache, error, engine, quits, puzzles, i, j, analysis,
                 evalLog, accumulated, upload>>

\* lines 100-102: fetch_games answers 200, parse_pgns, store_cache
FetchGames ==
  /\ pc = "fetch_games"
  /\ games' = remote
  /\ cache' = Some(remote)
  /\ pc' = "popen"
  /\ UNCHANGED <<config, starts, error, engine, quits, puzzles, i, j, analysis,
                 evalLog, accumulated, upload>>

\* the cache is written before the status is looked at
FetchGamesFailsCached ==
  /\ pc = "fetch_games"
  /\ cache' = Some(<<>>)
  /\ pc' = "raised"
  /\ error' = "SourceUnavailable"
  /\ UNCHANGED <<config, starts, games, engine, quits, puzzles, i, j, analysis,
                 evalLog, accumulated, upload>>

\* lines 25-27: the request fails or the status is not 200
FetchGamesFails ==
  /\ pc = "fetch_games"
  /\ pc' = "raised"
  /\ error' = "SourceUnavailable"
  /\ UNCHANGED <<config, starts, cache, games, engine, quits, puzzles, i, j, analysis,
                 evalLog, accumulated, upload>>

\* lines 104-105
PopenEngine ==
  /\ pc = "popen"
  /\ puzzles' = <<>>
  /\ engine' = "alive"
  /\ starts' = starts + 1
  /\ i' = 0
  /\ pc' = "for_batch"
  /\ UNCHANGED <<config, cache, error, games, quits, j, analysis,
                 evalLog, accumulated, upload>>

\* line 105: the executable is missing or fails its handshake
PopenEngineFails ==
  /\ pc = "popen"
  /\ pc' = "raised"
  /\ error' = "EngineUnavailable"
  /\ UNCHANGED <<config, starts, cache, games, engine, quits, puzzles, i, j, analysis,
                 evalLog, accumulated, upload>>

\* line 107: the next batch, or the end of the outer loop
ForBatch ==
  /\ pc = "for_batch"
  /\ IF i < Len(games)
       THEN j' = 0 /\ pc' = "for_game"
       ELSE j' = j /\ pc' = "quit"
  /\ UNCHANGED <<config, starts, cache, error, games, engine, quits, puzzles, i, analysis,
                 evalLog, accumulated, upload>>

\* prev_eval is not reset: it keeps the last score of the game before
ForGameNoReset ==
  /\ pc = "for_game"
  /\ IF j < Len(Batch)
       THEN /\ j' = j + 1
            /\ moveIdx' = 0
            /\ found' = <<>>
            /\ prev_eval' = prev_eval
            /\ lastScore' = None
            /\ lastWhite' = None
            /\ pc' = "for_move"
       ELSE /\ UNCHANGED <<j, analysis>>
            /\ pc' = "batch_check"
  /\ UNCHANGED <<config, starts, cache, error, games, engine, quits, puzzles, i,
                 evalLog, accumulated, upload>>

\* line 110, and lines 43-45 of the analyze_game call of line 111
ForGame ==
  /\ pc = "for_game"
  /\ IF j < Len(Batch)
       THEN /\ j' = j + 1
            /\ moveIdx' = 0
            /\ found' = <<>>
            /\ prev_eval' = InitialPrevEval
            /\ lastScore' = None
            /\ lastWhite' = None
            /\ pc' = "for_move"
       ELSE /\ UNCHANGED <<j, analysis>>
            /\ pc' = "batch_check"
  /\ UNCHANGED <<config, starts, cache, error, games, engine, quits, puzzles, i,
                 evalLog, accumulated, upload>>

\* the game under analysis, and whether board.push accepts its move m
Game == games[i + j]
Legal(m) == Game.illegal # m

\* lines 47-61: one iteration of the loop of analyze_game
AnalyseMove ==
  /\ pc = "for_move"
  /\ moveIdx < Game.moves
  /\ Legal(moveIdx + 1)
  /\ engine = "alive"
  /\ \E relative \in engineScores :
      LET score == ScoreOf(relative, Turn(moveIdx + 1))
      IN
       /\ evalLog' = Append(evalLog, <<i + j, moveIdx + 1>>)
       /\ lastScore' = Some(score)
       /\ lastWhite' = Some(PovOf(relative, Turn(moveIdx + 1), "white"))
       /\ IF prev_eval # None
            THEN \E swing \in SwingOf(score, prev_eval[1]) :
                   found' = IF IsSwing(swing)
                              THEN Append(found, Puzzle(i + j, moveIdx + 1, swing, score))
                              ELSE found
            ELSE found' = found
       /\ prev_eval' = Some(score)
  /\ moveIdx' = moveIdx + 1
  /\ UNCHANGED <<config, starts, cache, pc, error, games, engine, quits, puzzles, i, j,
                 accumulated, upload>>

\* line 48: board.push rejects the move; nothing catches the exception
AnalyseMoveIllegal ==
  /\ pc = "for_move"
  /\ moveIdx < Game.moves
  /\ ~Legal(moveIdx + 1)
  /\ pc' = "raised"
  /\ error' = "IllegalMoveError"
  /\ UNCHANGED <<config, starts, cache, games, engine, quits, puzzles, i, j, analysis,
                 evalLog, accumulated, upload>>

\* line 49: engine.analyse raises; nothing catches the exception
AnalyseEngineFails ==
  /\ pc = "for_move"
  /\ moveIdx < Game.moves
  /\ Legal(moveIdx + 1)
  /\ evalLog' = Append(evalLog, <<i + j, moveIdx + 1>>)
  /\ pc' = "raised"
  /\ error' = "EngineCommunicationError"
  /\ UNCHANGED <<config, starts, cache, games, engine, quits, puzzles, i, j, analysis,
                 accumulated, upload>>

\* analyze_game also returns as soon as the candidates found reach the target
GameDoneEarly ==
  /\ pc = "for_move"
  /\ moveIdx >= Game.moves \/ Len(puzzles) + Len(found) >= TARGET_PUZZLES
  /\ puzzles' = puzzles \o found
  /\ pc' = IF BudgetReached(puzzles') THEN "batch_check" ELSE "for_game"
  /\ UNCHANGED <<config, starts, cache, error, games, engine, quits, i, j, analysis,
                 evalLog, accumulated, upload>>

\* line 62 and lines 111-114: the mainline is exhausted
GameDone ==
  /\ pc = "for_move"
  /\ moveIdx >= Game.moves
  /\ puzzles' = puzzles \o found
  /\ pc' = IF BudgetReached(puzzles') THEN "batch_check" ELSE "for_game"
  /\ UNCHANGED <<config, starts, cache, error, games, engine, quits, i, j, analysis,
                 evalLog, accumulated, upload>>

\* engine.quit() is called at the end of every batch
BatchCheckQuits ==
  /\ pc = "batch_check"
  /\ engine' = "dead"
  /\ quits' = quits + 1
  /\ IF BudgetReached(puzzles)
       THEN i' = i /\ pc' = "rank"
       ELSE i' = i + BATCH_SIZE /\ pc' = "for_batch"
  /\ UNCHANGED <<config, starts, cache, error, games, puzzles, j, analysis,
                 evalLog, accumulated, upload>>

\* the break of line 116 is left out: the outer loop always goes on
BatchCheckNoBreak ==
  /\ pc = "batch_check"
  /\ i' = i + BATCH_SIZE
  /\ pc' = "for_batch"
  /\ UNCHANGED <<config, starts, cache, error, games, engine, quits, puzzles, j, analysis,
                 evalLog, accumulated, upload>>

\* lines 115-116, and the step of the outer loop
BatchCheck ==
  /\ pc = "batch_check"
  /\ IF BudgetReached(puzzles)
       THEN i' = i /\ pc' = "quit"
       ELSE i' = i + BATCH_SIZE /\ pc' = "for_batch"
  /\ UNCHANGED <<config, starts, cache, error, games, engine, quits, puzzles, j, analysis,
                 evalLog, accumulated, upload>>

\* line 118
Quit ==
  /\ pc = "quit"
  /\ engine' = "dead"
  /\ quits' = quits + 1
  /\ pc' = "rank"
  /\ UNCHANGED <<config, starts, cache, error, games, puzzles, i, j, analysis,
                 evalLog, accumulated, upload>>

\* line 119
Ranked(ps) == Truncate(SortedBySwing(ps))

Rank ==
  /\ pc = "rank"
  /\ accumulated' = puzzles
  /\ puzzles' = Ranked(puzzles)
  /\ pc' = "upload"
  /\ UNCHANGED <<config, starts, cache, error, games, engine, quits, i, j, analysis,
                 evalLog, upload>>

\* the accumulator is posted instead of the ranked list
UploadOkUnranked ==
  /\ pc = "upload"
  /\ posts' = posts + 1
  /\ sink' = Append(sink, accumulated)
  /\ outcome' = "ok"
  /\ returned' = Some(puzzles)
  /\ pc' = "done"
  /\ UNCHANGED <<config, starts, cache, error, games, engine, quits, puzzles, i, j, analysis,
                 evalLog, accumulated>>

\* lines 122-123 with lines 86-87: the POST is answered with a success status
UploadOk ==
  /\ pc = "upload"
  /\ posts' = posts + 1
  /\ sink' = Append(sink, puzzles)
  /\ outcome' = "ok"
  /\ returned' = Some(puzzles)
  /\ pc' = "done"
  /\ UNCHANGED <<config, starts, cache, error, games, engine, quits, puzzles, i, j, analysis,
                 evalLog, accumulated>>

\* lines 86-87: the POST is answered with a failure status, which is only printed
UploadRejected ==
  /\ pc = "upload"
  /\ posts' = posts + 1
  /\ outcome' = "rejected"
  /\ returned' = Some(puzzles)
  /\ pc' = "done"
  /\ UNCHANGED <<config, starts, cache, error, games, engine, quits, puzzles, i, j, analysis,
                 evalLog, accumulated, sink>>

\* the try of line 85 is left out: the exception of requests.post escapes
UploadRaisesUncaught ==
  /\ pc = "upload"
  /\ posts' = posts + 1
  /\ outcome' = "raised"
  /\ pc' = "raised"
  /\ error' = "SinkDeliveryError"
  /\ UNCHANGED <<config, starts, cache, games, engine, quits, puzzles, i, j, analysis,
                 evalLog, accumulated, sink, returned>>

\* lines 88-89: requests.post raises and the handler prints the exception
UploadRaises ==
  /\ pc = "upload"
  /\ posts' = posts + 1
  /\ outcome' = "raised"
  /\ returned' = Some(puzzles)
  /\ pc' = "done"
  /\ UNCHANGED <<config, starts, cache, error, games, engine, quits, puzzles, i, j, analysis,
                 evalLog, accumulated, sink>>

Next ==
  \/ LoadCache
  \/ FetchGames
  \/ FetchGamesFails
  \/ PopenEngine
  \/ PopenEngineFails
  \/ ForBatch
  \/ ForGame
  \/ AnalyseMove
  \/ AnalyseMoveIllegal
  \/ AnalyseEngineFails
  \/ GameDone
  \/ BatchCheck
  \/ Quit
  \/ Rank
  \/ UploadOk
  \/ UploadRejected
  \/ UploadRaises

Spec == Init /\ [][Next]_vars

SpecSwing == InitSwing /\ [][Next]_vars

\* ---------------------------------------------------------------- claims

\* the accumulator of the run: `puzzles` until line 119 replaces it
Accumulator == IF pc \in {"upload", "done"} THEN accumulated ELSE puzzles

\* the number of accumulated candidates that come from the games 1..k
FoundUpTo(k) == Cardinality({n \in 1..Len(Accumulator) : Accumulator[n].fen[1] <= k})

Range(s) == {s[n] : n \in 1..Len(s)}
PosIn(s, x) == CHOOSE n \in 1..Len(s) : s[n] = x

\* C1: every run that started the engine, whether it returns or raises, ends
\* with the engine process terminated, by exactly one engine.quit().
C1_EngineTerminatedOnce ==
  (pc \in {"done", "raised"} /\ engine # "none") => (engine = "dead" /\ quits = 1)

\* C2: a move that cannot be applied never makes generate_puzzles raise: the
\* game is dropped and the run goes on.
C2_IllegalMoveIsolated ==
  ~(pc = "raised" /\ error = "IllegalMoveError")

\* C3: if the accumulator holds at least TARGET_PUZZLES candidates after game k,
\* engine.analyse is never called for a move of game k + 1 or of a later game.
C3_BudgetAcrossGames ==
  \A k \in 1..Len(games) :
    FoundUpTo(k) >= TARGET_PUZZLES => \A n \in 1..Len(evalLog) : evalLog[n][1] <= k

\* C3 witness: a run returned with the budget reached before the last game.
C3_Witness ==
  /\ pc = "done"
  /\ evalLog # <<>>
  /\ \E k \in 1..(Len(games) - 1) : FoundUpTo(k) >= TARGET_PUZZLES /\ games[k + 1].moves > 0

\* C4 as claimed: engine.analyse is never called once the candidates found so
\* far (accumulator plus those of the game under analysis) reach TARGET_PUZZLES.
C4_NoEvalOnceReached ==
  [][Len(evalLog') > Len(evalLog) => Len(puzzles) + Len(found) < TARGET_PUZZLES]_vars

\* C4 amended: an engine.analyse call issued when the candidates found so far
\* have reached TARGET_PUZZLES belongs to the game during which they reached
\* it: the accumulator of the games before it is still below TARGET_PUZZLES.
C4_EvalOnlyWithinReachingGame ==
  [][(Len(evalLog') > Len(evalLog) /\ Len(puzzles) + Len(found) >= TARGET_PUZZLES)
       => (Len(puzzles) < TARGET_PUZZLES /\ found # <<>>
           /\ evalLog'[Len(evalLog')][1] = found[1].fen[1])]_vars

\* C4 witness: a move was evaluated after the move whose candidate reached the
\* target, in the same game.
C4_Witness ==
  /\ pc = "for_move"
  /\ Len(puzzles) < TARGET_PUZZLES
  /\ Len(puzzles) + Len(found) >= TARGET_PUZZLES
  /\ moveIdx > found[TARGET_PUZZLES - Len(puzzles)].last_move
  /\ evalLog[Len(evalLog)] = <<i + j, moveIdx>>

\* C5: at step i >= 1 of a game a candidate is appended iff
\* abs(e_i - e_{i-1}) >= MIN_EVAL_SWING; its swing is abs(e_i - e_{i-1}) rounded
\* to 2 decimals and its eval is e_i rounded to 2 decimals; step 0 appends none.
C5_SwingDetection ==
  [][moveIdx' = moveIdx + 1 =>
       IF lastScore = None
         THEN found' = found
         ELSE LET e == lastScore'[1]
                  d == Abs(e - lastScore[1])
              IN  \E x \in FloatError(e, lastScore[1]) :
                    IF d + x >= MIN_EVAL_SWING
                      THEN found' = Append(found,
                                      [fen |-> <<i + j, moveIdx'>>, swing |-> Round2(d + x),
                                       last_move |-> moveIdx', eval |-> Round2(e)])
                      ELSE found' = found]_vars

\* C5 witness: the scenario 0.2, 0.3, 2.1, 2.0, -1.0 ended with candidates at
\* the moves 3 and 5 (indices 2 and 4), of swings 1.8 and 3.0.
C5_Witness ==
  /\ pc = "for_move"
  /\ moveIdx = 5
  /\ lastScore = Some(-1000)
  /\ found = << [fen |-> <<1, 3>>, swing |-> 1800, last_move |-> 3, eval |-> 2100],
                [fen |-> <<1, 5>>, swing |-> 3000, last_move |-> 5, eval |-> -1000] >>

\* C6: the returned list has min(TARGET_PUZZLES, size of the accumulator) entries.
C6_ResultLength ==
  pc = "done" => Len(returned[1]) = Min(TARGET_PUZZLES, Len(accumulated))

\* C6 witness: a run returned after the accumulator overshot the target.
C6_Witness ==
  pc = "done" /\ Len(accumulated) > TARGET_PUZZLES /\ Len(returned[1]) = TARGET_PUZZLES

\* C7: the returned list is in descending order of swing, and no accumulated
\* candidate left out has a larger swing than a puzzle kept.
C7_DescendingSwing ==
  pc = "done" =>
    LET r == returned[1]
    IN  /\ \A n \in 1..(Len(r) - 1) : r[n].swing >= r[n + 1].swing
        /\ \A c \in Range(accumulated) \ Range(r) : \A q \in Range(r) : c.swing <= q.swing

\* C7 witness: a run returned where the best candidate was found last and one
\* candidate was left out.
C7_Witness ==
  /\ pc = "done"
  /\ Len(accumulated) > Len(returned[1])
  /\ returned[1] # <<>>
  /\ returned[1][1] = accumulated[Len(accumulated)]
  /\ returned[1][1].swing > accumulated[1].swing

\* C8: among accumulated candidates of equal swing the one found earlier comes
\* earlier in the result, and is the one kept when only some of them are kept.
C8_StableRanking ==
  pc = "done" =>
    LET r == returned[1]
    IN  \A a, b \in 1..Len(accumulated) :
          (a < b /\ accumulated[a].swing = accumulated[b].swing
             /\ accumulated[b] \in Range(r))
          => (accumulated[a] \in Range(r)
              /\ PosIn(r, accumulated[a]) < PosIn(r, accumulated[b]))

\* C8 witness: two candidates of equal swing, the earlier kept and the later cut.
C8_Witness ==
  /\ pc = "done"
  /\ \E a, b \in 1..Len(accumulated) :
       /\ a < b
       /\ accumulated[a].swing = accumulated[b].swing
       /\ accumulated[a] \in Range(returned[1])
       /\ accumulated[b] \notin Range(returned[1])

\* C9: a game of fewer than 2 moves yields no candidate.
C9_ShortGameNoCandidate ==
  /\ (pc = "for_move" /\ Game.moves < 2) => found = <<>>
  /\ \A n \in 1..Len(Accumulator) : games[Accumulator[n].fen[1]].moves >= 2

\* C9 witness: the only move of a one-move game has been evaluated.
C9_Witness ==
  pc = "for_move" /\ Game.moves = 1 /\ moveIdx = 1 /\ lastScore # None

\* C10: when the POST raises or is answered with a failure status, the run still
\* returns the ranked list it computed, and there was one POST only.
C10_SinkFailureHarmless ==
  outcome \in {"rejected", "raised"} =>
    /\ pc = "done"
    /\ error = ""
    /\ returned = Some(puzzles)
    /\ puzzles = SubSeq(SortedBySwing(accumulated), 1, Min(TARGET_PUZZLES, Len(accumulated)))
    /\ posts = 1

\* C10 witness: requests.post raised and a list of puzzles was returned.
C10_Witness ==
  pc = "done" /\ outcome = "raised" /\ returned # None /\ returned[1] # <<>>

\* the positions of game g in move order, and those of the games 1..k in order
MovesOf(g) == [m \in 1..games[g].moves |-> <<g, m>>]
RECURSIVE Positions(_)
Positions(k) == IF k = 0 THEN <<>> ELSE Positions(k - 1) \o MovesOf(k)

\* the game after which a single loop over the games stops
StopGame ==
  LET reached == {k \in 1..Len(games) : FoundUpTo(k) >= TARGET_PUZZLES}
  IN  IF reached = {} THEN Len(games)
      ELSE CHOOSE k \in reached : \A h \in reached : k <= h

\* C11: whatever BATCH_SIZE is, a run that returns has evaluated what a single
\* loop over the games with the early-stop check after each game evaluates (all
\* the moves of the games up to the first one after which the accumulator holds
\* TARGET_PUZZLES candidates), and its result comes from those games alone.
C11_BatchSizeIrrelevant ==
  pc = "done" =>
    /\ evalLog = Positions(StopGame)
    /\ \A n \in 1..Len(accumulated) : accumulated[n].fen[1] <= StopGame
    /\ \A n \in 1..(Len(accumulated) - 1) :
         \/ accumulated[n].fen[1] < accumulated[n + 1].fen[1]
         \/ /\ accumulated[n].fen[1] = accumulated[n + 1].fen[1]
            /\ accumulated[n].last_move < accumulated[n + 1].last_move
    /\ Range(returned[1]) \subseteq Range(accumulated)

\* C11 witness: a run returned after it went through more than one batch of
\* more than one game.
C11_Witness ==
  /\ pc = "done"
  /\ BATCH_SIZE > 1
  /\ evalLog # <<>>
  /\ evalLog[Len(evalLog)][1] > BATCH_SIZE

\* C12: the engine.analyse calls issued so far are a prefix of the positions of
\* all the games, game after game in input order and move after move.
C12_EvalPrefix ==
  /\ Len(evalLog) <= Len(Positions(Len(games)))
  /\ \A n \in 1..Len(evalLog) : evalLog[n] = Positions(Len(games))[n]

\* C12 witness: a run returned after a proper prefix that covers two games.
C12_Witness ==
  /\ pc = "done"
  /\ evalLog # <<>>
  /\ evalLog[Len(evalLog)][1] >= 2
  /\ Len(evalLog) < Len(Positions(Len(games)))

\* C13: no position is evaluated twice, and a game whose analysis has started
\* and is no longer under way (analyze_game returned, so that the early-stop
\* check ran) has had every one of its moves evaluated.
C13_NoMidGameCancellation ==
  /\ \A a, b \in 1..Len(evalLog) : a # b => evalLog[a] # evalLog[b]
  /\ \A n \in 1..Len(evalLog) :
       LET g == evalLog[n][1]
       IN  \/ pc \in {"for_move", "raised"} /\ g = i + j
           \/ \A m \in 1..games[g].moves : <<g, m>> \in Range(evalLog)

\* C13 witness: the candidate that reached the target was not at the last move
\* of its game, and the last move of that game was evaluated all the same.
C13_Witness ==
  /\ pc = "batch_check"
  /\ Len(puzzles) >= TARGET_PUZZLES
  /\ puzzles[TARGET_PUZZLES].fen[1] = i + j
  /\ puzzles[TARGET_PUZZLES].last_move < games[i + j].moves
  /\ <<i + j, games[i + j].moves>> \in Range(evalLog)

\* the score that the side to move has, given the score of White
MoverScore(white, m) == IF Turn(m) = "white" THEN white ELSE -white

\* C14: with w_i the score from White's point of view and s_i = w_i when White
\* is to move, -w_i when Black is, the candidate test and the stored swing at
\* step i use abs(s_i - s_{i-1}): the two scores are not brought to one frame.
C14_AlternatingPerspective ==
  [][(moveIdx' = moveIdx + 1 /\ lastWhite # None) =>
       LET s == MoverScore(lastWhite'[1], moveIdx')
           sp == MoverScore(lastWhite[1], moveIdx)
           d == Abs(s - sp)
       IN  \E x \in FloatError(s, sp) :
             IF d + x >= MIN_EVAL_SWING
               THEN found' = Append(found,
                               [fen |-> <<i + j, moveIdx'>>, swing |-> Round2(d + x),
                                last_move |-> moveIdx', eval |-> Round2(s)])
               ELSE found' = found]_vars

\* C14 witness: White's score went from 2.0 to 1.0 at move 5, one pawn in a
\* single frame, and the candidate stored has the swing 3.0.
C14_Witness ==
  /\ pc = "for_move"
  /\ moveIdx = 5
  /\ lastWhite = Some(1000)
  /\ found # <<>>
  /\ found[Len(found)] = [fen |-> <<1, 5>>, swing |-> 3000, last_move |-> 5, eval |-> -1000]

\* C15: when fetch_games fails the error leaves generate_puzzles at once and
\* nothing else happens: the cache is not written, no engine is started, no
\* position is evaluated, nothing is posted, and no step follows (no retry).
C15_FetchFailurePropagates ==
  /\ [](error = "SourceUnavailable" =>
          /\ pc = "raised"
          /\ engine = "none" /\ starts = 0 /\ quits = 0
          /\ evalLog = <<>>
          /\ posts = 0 /\ sink = <<>>
          /\ returned = None)
  /\ [][error # "SourceUnavailable" /\ (error' = "SourceUnavailable" => cache' = cache)]_vars

\* C15 witness: fetch_games failed on a cache miss.
C15_Witness ==
  pc = "raised" /\ error = "SourceUnavailable" /\ cache = None /\ remote # <<>>

\* C16: fetch_games is called only when no cache entry exists for the user.
C16_FetchOnlyOnMiss ==
  pc = "fetch_games" => cache = None

\* C17: at most one engine process is ever started, and every engine.analyse
\* call is issued while that process is alive, before engine.quit().
C17_OneLiveSession ==
  /\ [](starts <= 1 /\ (engine # "none" => starts = 1) /\ quits <= 1)
  /\ [][Len(evalLog') > Len(evalLog) => (engine = "alive" /\ quits = 0)]_vars

\* C17 witness: a run returned after evaluations on its one engine process.
C17_Witness ==
  pc = "done" /\ starts = 1 /\ quits = 1 /\ engine = "dead" /\ evalLog # <<>>

\* C18: no candidate is ever stored for the first position of a game, and the
\* first evaluation of a game appends nothing whatever the earlier games were.
C18_PrevEvalReset ==
  /\ [](/\ \A n \in 1..Len(Accumulator) : Accumulator[n].last_move >= 2
        /\ \A n \in 1..Len(found) : found[n].last_move >= 2)
  /\ [][(moveIdx = 0 /\ moveIdx' = 1) => found' = <<>>]_vars

\* C18 witness: the first position of a later game was evaluated, its score is
\* more than MIN_EVAL_SWING away from that of the last position of the game
\* before it, and no candidate was stored.
C18_Witness ==
  /\ pc = "for_move"
  /\ i + j >= 2
  /\ moveIdx = 1
  /\ found = <<>>
  /\ \E n \in 1..Len(puzzles) :
       /\ puzzles[n].fen[1] = i + j - 1
       /\ puzzles[n].last_move = games[i + j - 1].moves
       /\ Abs(lastScore[1] - puzzles[n].eval) > MIN_EVAL_SWING + Centipawn

\* C19: a run that returns has posted once, after engine.quit() and after the
\* ranking, and what the sink received is the list returned, not the accumulator.
C19_SinkGetsRankedList ==
  /\ [](pc = "done" =>
          /\ posts = 1
          /\ Len(sink) <= 1
          /\ \A n \in 1..Len(sink) : sink[n] = returned[1]
          /\ outcome = "ok" => Len(sink) = 1)
  /\ [][posts' > posts => (engine = "dead" /\ quits = 1 /\ pc = "upload"
                           /\ Len(puzzles) <= TARGET_PUZZLES)]_vars
  /\ [][sink' # sink => (sink' = Append(sink, puzzles) /\ posts' = posts + 1)]_vars

\* C19 witness: the accumulator overshot the target and the sink received the
\* truncated list.
C19_Witness ==
  /\ pc = "done"
  /\ outcome = "ok"
  /\ Len(accumulated) > TARGET_PUZZLES
  /\ sink = <<returned[1]>>
  /\ Len(returned[1]) = TARGET_PUZZLES

\* the steps of generate_puzzles are taken as long as one is possible
FairSpec == Init /\ [][Next]_vars /\ WF_vars(Next)

\* C20: unless the game source or the engine fails, generate_puzzles ends with
\* the engine stopped and a list returned, after at most one engine.analyse
\* call per move of the games.
C20_Terminates ==
  /\ [](Len(evalLog) <= TotalMoves(games))
  /\ <>(\/ pc = "done" /\ engine = "dead" /\ returned # None
        \/ pc = "raised" /\ error \in {"SourceUnavailable", "EngineUnavailable",
                                       "EngineCommunicationError"})

====
